---- MODULE Spec2Model ----
(***************************************************************************)
(* Model of src/App.tsx: an offline-first to-do list on expo-sqlite with   *)
(* libSQL sync.  The persistent store (PRAGMA user_version, the items      *)
(* table), the migration run by SQLiteProvider's onInit, the component     *)
(* Main's state and effects, the async handlers (each suspended at the     *)
(* await it is waiting on) and the syncLibSQL calls in flight.             *)
(*                                                                         *)
(* db.syncLibSQL() returns a promise that the source never awaits: a call  *)
(* is put in flight and completes (success or failure) at any later time,  *)
(* or never.  All statements go to the one connection `db`, so a statement *)
(* of one handler can land between two awaits of another handler.          *)
(***************************************************************************)
EXTENDS Integers, Sequences, FiniteSets, TLC

\* ---- bounds of the model ----
MaxId == 2          \* largest row id the store hands out
MaxStarts == 2      \* application starts (SQLiteProvider mounts)
MaxCmds == 2        \* user commands, ticks and restarts in one behaviour
MaxTasks == 2       \* handlers suspended at an await at the same time
MaxToggles == 3     \* auto-sync switch changes per start

\* ---- program constants ----
DATABASE_VERSION == 1

\* the texts a user (of this client or of another one) submits
Texts == {"", "a"}

VARIABLES
    user_version,       \* PRAGMA user_version (persisted)
    tableExists,        \* the items table has been created (persisted)
    items,              \* rows of items: set of [id, done, value] (persisted)
    starts,             \* number of application starts so far
    mpc,                \* position of migrateDbIfNeeded / Main mounted
    currentDbVersion,   \* local variable of migrateDbIfNeeded
    text,               \* useState text
    todoItems,          \* useState todoItems (sequence of rows)
    doneItems,          \* useState doneItems (sequence of rows)
    enablePollingSync,  \* useState enablePollingSync
    effectPending,      \* the polling useEffect has to run for the last render
    intervalId,         \* intervalId captured by the pending cleanup (0: none)
    timers,             \* intervals registered with setInterval
    tasks,              \* handlers suspended at an await, in submission order
    syncs,              \* syncLibSQL calls in flight: set of [id, origin]
    hist                \* counters of what has happened since this start

persistent == <<user_version, tableExists, items>>
ui == <<text, todoItems, doneItems>>
polling == <<enablePollingSync, effectPending, intervalId, timers>>
vars == <<user_version, tableExists, items, starts, mpc, currentDbVersion,
          text, todoItems, doneItems, enablePollingSync, effectPending,
          intervalId, timers, tasks, syncs, hist>>

\* ---- the store ----
Ids(S) == {r.id : r \in S}

MaxOf(N) == IF N = {} THEN 0 ELSE CHOOSE n \in N : \A m \in N : m <= n

\* INTEGER PRIMARY KEY without AUTOINCREMENT: one more than the largest rowid
NewId(S) == MaxOf(Ids(S)) + 1

Insert(S, t) == S \cup {[id |-> NewId(S), done |-> FALSE, value |-> t]}

\* addItemAsync without the test for the empty text
AddItemUnchecked(S, t) == Insert(S, t)

\* addItemAsync
AddItem(S, t) == IF t # "" THEN Insert(S, t) ELSE S

\* updateItemAsDoneAsync whose UPDATE has no WHERE clause
UpdateAllAsDone(S, i) == {[r EXCEPT !.done = TRUE] : r \in S}

\* updateItemAsDoneAsync whose UPDATE flips the flag instead of setting it
UpdateItemToggleDone(S, i) ==
    {IF r.id = i THEN [r EXCEPT !.done = ~r.done] ELSE r : r \in S}

\* updateItemAsDoneAsync
UpdateItemAsDone(S, i) ==
    {IF r.id = i THEN [r EXCEPT !.done = TRUE] ELSE r : r \in S}

\* deleteItemAsync whose DELETE also requires done = 1
DeleteDoneOnly(S, i) == {r \in S : r.id # i \/ ~r.done}

\* deleteItemAsync
DeleteItem(S, i) == {r \in S : r.id # i}

RECURSIVE SeqOf(_)
\* rows in rowid order, as SELECT returns them
SeqOf(S) ==
    IF S = {} THEN <<>>
    ELSE LET r == CHOOSE x \in S : \A y \in S : x.id <= y.id
         IN <<r>> \o SeqOf(S \ {r})

\* SELECT * FROM items WHERE done = ?
SelectByDone(S, d) == SeqOf({r \in S : r.done = d})

Range(s) == {s[k] : k \in 1..Len(s)}

\* ---- initial state: a fresh store, first start ----
NoHist == [refresh |-> 0, writes |-> 0, trig |-> 0, mounts |-> 0, ticks |-> 0,
           cmds |-> 0, nsync |-> 0, msync |-> 0, fails |-> 0, stmts |-> 0,
           tickFail |-> 0, toggles |-> 0, v0 |-> 0, maxId |-> 0,
           creates |-> 0]

Init ==
    /\ user_version = 0
    /\ tableExists = FALSE
    /\ items = {}
    /\ starts = 1
    /\ mpc = "sync"
    /\ currentDbVersion = 0
    /\ text = ""
    /\ todoItems = <<>>
    /\ doneItems = <<>>
    /\ enablePollingSync = FALSE
    /\ effectPending = FALSE
    /\ intervalId = 0
    /\ timers = {}
    /\ tasks = <<>>
    /\ syncs = {}
    /\ hist = NoHist

\* ---- migrateDbIfNeeded ----
\* db.syncLibSQL(): the call is started, its promise is dropped
MigrateSync ==
    /\ mpc = "sync"
    /\ syncs' = syncs \cup {[id |-> hist.nsync + 1, origin |-> "migrate"]}
    /\ hist' = [hist EXCEPT !.nsync = @ + 1, !.msync = @ + 1]
    /\ mpc' = "read"
    /\ UNCHANGED <<persistent, starts, currentDbVersion, ui, polling, tasks>>

\* MigrateRead with the early return taken only for a newer version (> for >=)
MigrateReadNewerOnly ==
    /\ mpc = "read"
    /\ currentDbVersion' = user_version
    /\ mpc' = IF user_version > DATABASE_VERSION THEN "done"
              ELSE IF user_version = 0 THEN "create" ELSE "setver"
    /\ UNCHANGED <<persistent, starts, ui, polling, tasks, syncs, hist>>

\* MigrateRead without the early return and without the test for version 0
MigrateReadAlwaysMigrates ==
    /\ mpc = "read"
    /\ currentDbVersion' = user_version
    /\ mpc' = "create"
    /\ UNCHANGED <<persistent, starts, ui, polling, tasks, syncs, hist>>

\* await getFirstAsync("PRAGMA user_version"), then the two ifs
MigrateRead ==
    /\ mpc = "read"
    /\ currentDbVersion' = user_version
    /\ mpc' = IF user_version >= DATABASE_VERSION THEN "done"
              ELSE IF user_version = 0 THEN "create" ELSE "setver"
    /\ UNCHANGED <<persistent, starts, ui, polling, tasks, syncs, hist>>

\* await execAsync(CREATE TABLE IF NOT EXISTS items ...); currentDbVersion = 1
MigrateCreate ==
    /\ mpc = "create"
    /\ tableExists' = TRUE
    /\ currentDbVersion' = 1
    /\ hist' = [hist EXCEPT !.stmts = @ + 1, !.creates = @ + 1]
    /\ mpc' = "setver"
    /\ UNCHANGED <<user_version, items, starts, ui, polling, tasks, syncs>>

\* await execAsync(PRAGMA user_version = DATABASE_VERSION)
MigrateSetVersion ==
    /\ mpc = "setver"
    /\ user_version' = DATABASE_VERSION
    /\ hist' = [hist EXCEPT !.stmts = @ + 1]
    /\ mpc' = "done"
    /\ UNCHANGED <<tableExists, items, starts, currentDbVersion, ui, polling,
                   tasks, syncs>>

\* MigrateFail that persists the version reached so far when a step fails
MigrateFailCommitsProgress ==
    /\ mpc \in {"create", "setver"}
    /\ mpc' = "failed"
    /\ user_version' = currentDbVersion
    /\ UNCHANGED <<tableExists, items, starts, currentDbVersion, ui, polling,
                   tasks, syncs, hist>>

\* an execAsync rejects: the statement has no effect, the async function
\* rejects and SQLiteProvider never renders Main
MigrateFail ==
    /\ mpc \in {"create", "setver"}
    /\ mpc' = "failed"
    /\ UNCHANGED <<persistent, starts, currentDbVersion, ui, polling, tasks,
                   syncs, hist>>

\* ---- Main ----
\* a handler in flight; cmd numbers the event that invoked it (0: the mount)
Task(k, p, t, i, s) ==
    [kind |-> k, pc |-> p, txt |-> t, id |-> i, sync |-> s,
     snap |-> {}, cmd |-> IF k = "startup" THEN 0 ELSE hist.cmds + 1]

Remove(q, n) == SubSeq(q, 1, n - 1) \o SubSeq(q, n + 1, Len(q))

CanStart ==
    /\ mpc = "mounted"
    /\ hist.cmds < MaxCmds
    /\ Len(tasks) < MaxTasks

PendingAdds == Cardinality({n \in 1..Len(tasks) :
                   tasks[n].kind = "add" /\ tasks[n].pc = "write"})

\* room for one more row within MaxId
Room == MaxOf(Ids(items)) + PendingAdds < MaxId

\* SQLiteProvider renders Main once onInit has resolved; the mount effects
\* run: refetchItems(), and the polling effect with
\* enablePollingSync = false, which does nothing
Mount ==
    /\ mpc = "done"
    /\ mpc' = "mounted"
    /\ tasks' = <<Task("startup", "read1", "", 0, 0)>>
    /\ hist' = [hist EXCEPT !.refresh = @ + 1, !.mounts = @ + 1]
    /\ UNCHANGED <<persistent, starts, currentDbVersion, ui, polling, syncs>>

\* the user types t (onChangeText={setText}) and submits it.
\* onSubmitEditing: await addItemAsync(db, text); with text = "" addItemAsync
\* issues no statement and the handler goes on to refetchItems and setText
SubmitEditing(t) ==
    /\ CanStart
    /\ t # "" => Room
    /\ IF t # ""
       THEN /\ tasks' = Append(tasks, Task("add", "write", t, 0, 0))
            /\ text' = t
            /\ hist' = [hist EXCEPT !.cmds = @ + 1]
       ELSE /\ tasks' = Append(tasks, Task("add", "read1", t, 0, 0))
            /\ text' = ""
            /\ hist' = [hist EXCEPT !.cmds = @ + 1, !.refresh = @ + 1,
                                    !.writes = @ + 1]
    /\ items' = IF t # "" THEN items ELSE AddItem(items, t)
    /\ UNCHANGED <<user_version, tableExists, starts, mpc, currentDbVersion,
                   todoItems, doneItems, polling, syncs>>

\* onPressItem of an entry of the Pending list: await updateItemAsDoneAsync
PressTodo(i) ==
    /\ CanStart
    /\ i \in Ids(Range(todoItems))
    /\ tasks' = Append(tasks, Task("done", "write", "", i, 0))
    /\ hist' = [hist EXCEPT !.cmds = @ + 1]
    /\ UNCHANGED <<persistent, starts, mpc, currentDbVersion, ui, polling,
                   syncs>>

\* onPressItem of an entry of the Completed list: await deleteItemAsync
PressDone(i) ==
    /\ CanStart
    /\ i \in Ids(Range(doneItems))
    /\ tasks' = Append(tasks, Task("del", "write", "", i, 0))
    /\ hist' = [hist EXCEPT !.cmds = @ + 1]
    /\ UNCHANGED <<persistent, starts, mpc, currentDbVersion, ui, polling,
                   syncs>>

\* the statement a handler is waiting on, applied to the rows
Written(S, t) ==
    CASE t.kind = "add" -> AddItem(S, t.txt)
      [] t.kind = "done" -> UpdateItemAsDone(S, t.id)
      [] t.kind = "del" -> DeleteItem(S, t.id)
      [] OTHER -> S

\* the largest id an INSERT of this client has been given since this start,
\* once the statement of handler t has taken effect on the rows S
Assigned(S, t) ==
    IF t.kind = "add" /\ Written(S, t) # S /\ NewId(S) > hist.maxId
    THEN NewId(S) ELSE hist.maxId

\* WriteDone whose handler ends without calling refetchItems()
WriteDoneNoRefetch(n) ==
    /\ n \in 1..Len(tasks)
    /\ tasks[n].pc = "write"
    /\ items' = Written(items, tasks[n])
    /\ tasks' = Remove(tasks, n)
    /\ text' = IF tasks[n].kind = "add" THEN "" ELSE text
    /\ hist' = [hist EXCEPT !.writes = @ + 1,
                             !.maxId = Assigned(items, tasks[n])]
    /\ UNCHANGED <<user_version, tableExists, starts, mpc, currentDbVersion,
                   todoItems, doneItems, polling, syncs>>

\* runAsync resolves: the statement has taken effect and the handler goes on:
\* refetchItems() issues BEGIN; onSubmitEditing also clears the text
WriteDone(n) ==
    /\ n \in 1..Len(tasks)
    /\ tasks[n].pc = "write"
    /\ items' = Written(items, tasks[n])
    /\ tasks' = [tasks EXCEPT ![n].pc = "read1"]
    /\ text' = IF tasks[n].kind = "add" THEN "" ELSE text
    /\ hist' = [hist EXCEPT !.refresh = @ + 1, !.writes = @ + 1,
                             !.maxId = Assigned(items, tasks[n])]
    /\ UNCHANGED <<user_version, tableExists, starts, mpc, currentDbVersion,
                   todoItems, doneItems, polling, syncs>>

\* runAsync rejects: the statement has no effect, the handler ends there
WriteFail(n) ==
    /\ n \in 1..Len(tasks)
    /\ tasks[n].pc = "write"
    /\ tasks' = Remove(tasks, n)
    /\ UNCHANGED <<persistent, starts, mpc, currentDbVersion, ui, polling,
                   syncs, hist>>

\* ---- refetchItems: withTransactionAsync(two getAllAsync) ----
\* a handler that calls refetchItems() issues BEGIN and is then at "read1"

\* ReadTodo where the SELECT is held back while a sync call is in flight
ReadTodoAfterSync(n) ==
    /\ syncs = {}
    /\ n \in 1..Len(tasks)
    /\ tasks[n].pc = "read1"
    /\ todoItems' = SelectByDone(items, FALSE)
    /\ tasks' = [tasks EXCEPT ![n].pc = "read2", ![n].snap = items]
    /\ UNCHANGED <<persistent, starts, mpc, currentDbVersion, text, doneItems,
                   polling, syncs, hist>>

\* setTodoItems(await getAllAsync(... done = false))
ReadTodo(n) ==
    /\ n \in 1..Len(tasks)
    /\ tasks[n].pc = "read1"
    /\ todoItems' = SelectByDone(items, FALSE)
    /\ tasks' = [tasks EXCEPT ![n].pc = "read2", ![n].snap = items]
    /\ UNCHANGED <<persistent, starts, mpc, currentDbVersion, text, doneItems,
                   polling, syncs, hist>>

\* setDoneItems(await getAllAsync(... done = true)); COMMIT follows and
\* refetch() ends
ReadDone(n) ==
    /\ n \in 1..Len(tasks)
    /\ tasks[n].pc = "read2"
    /\ doneItems' = SelectByDone(items, TRUE)
    /\ tasks' = Remove(tasks, n)
    /\ UNCHANGED <<persistent, starts, mpc, currentDbVersion, text, todoItems,
                   polling, syncs, hist>>

\* ---- sync ----
\* sync(true): db.syncLibSQL() is started and not awaited, then
\* refetchItems() issues BEGIN
StartSync(origin) ==
    /\ syncs' = syncs \cup {[id |-> hist.nsync + 1, origin |-> origin]}
    /\ tasks' = Append(tasks, Task(origin, "read1", "", 0, hist.nsync + 1))

\* "Sync Now": onPress={() => sync(true)}
SyncNow ==
    /\ CanStart
    /\ StartSync("manual")
    /\ hist' = [hist EXCEPT !.cmds = @ + 1, !.nsync = @ + 1, !.trig = @ + 1,
                            !.refresh = @ + 1]
    /\ UNCHANGED <<persistent, starts, mpc, currentDbVersion, ui, polling>>

\* Tick whose callback makes the sync call twice
TickSyncsTwice(t) ==
    /\ CanStart
    /\ t \in timers
    /\ syncs' = syncs \cup {[id |-> hist.nsync + 1, origin |-> "tick"],
                            [id |-> hist.nsync + 2, origin |-> "tick"]}
    /\ tasks' = Append(tasks, Task("tick", "read1", "", 0, hist.nsync + 2))
    /\ hist' = [hist EXCEPT !.cmds = @ + 1, !.nsync = @ + 2, !.trig = @ + 1,
                            !.refresh = @ + 1, !.ticks = @ + 1]
    /\ UNCHANGED <<persistent, starts, mpc, currentDbVersion, ui, polling>>

\* the callback of a registered interval fires: sync(true)
Tick(t) ==
    /\ CanStart
    /\ t \in timers
    /\ StartSync("tick")
    /\ hist' = [hist EXCEPT !.cmds = @ + 1, !.nsync = @ + 1, !.trig = @ + 1,
                            !.refresh = @ + 1, !.ticks = @ + 1]
    /\ UNCHANGED <<persistent, starts, mpc, currentDbVersion, ui, polling>>

\* the contents the items table can have: rows with distinct ids
Stores ==
    {S \in SUBSET [id : 1..MaxId, done : BOOLEAN, value : Texts \ {""}] :
        \A r, q \in S : r.id = q.id => r = q}

\* what one successful sync can leave in the table: the rows as they were,
\* or the rows after any number of adds, markDones and deletes of other
\* clients of the remote store
RemoteChanges(S) ==
    {S} \cup (IF tableExists
              THEN {T \in Stores : MaxOf(Ids(T)) + PendingAdds <= MaxId}
              ELSE {})

\* a refetch transaction is between its two SELECTs and holds the read lock
ReadLocked == \E n \in 1..Len(tasks) : tasks[n].pc = "read2"

\* a syncLibSQL call resolves. The replication writes through its own
\* connection, so the store keeps it out while a transaction of `db` is
\* reading; statements issued on `db` itself are not kept out.
SyncSucceed(s) ==
    /\ s \in syncs
    /\ ~ReadLocked
    /\ syncs' = syncs \ {s}
    /\ \E S \in RemoteChanges(items) : items' = S
    /\ UNCHANGED <<user_version, tableExists, starts, mpc, currentDbVersion,
                   ui, polling, tasks, hist>>

Failed(s) ==
    [hist EXCEPT !.fails = @ + 1,
                 !.tickFail = IF s.origin = "tick" THEN s.id ELSE @]

\* SyncFail where the rejection also ends the interval that made the call
SyncFailStopsTimer(s) ==
    /\ s \in syncs
    /\ syncs' = syncs \ {s}
    /\ hist' = Failed(s)
    /\ timers' = IF s.origin = "tick" THEN {} ELSE timers
    /\ UNCHANGED <<persistent, starts, mpc, currentDbVersion, ui,
                   enablePollingSync, effectPending, intervalId, tasks>>

\* a syncLibSQL call rejects (remote unreachable); nobody handles the promise
SyncFail(s) ==
    /\ s \in syncs
    /\ syncs' = syncs \ {s}
    /\ hist' = Failed(s)
    /\ UNCHANGED <<persistent, starts, mpc, currentDbVersion, ui, polling,
                   tasks>>

\* ---- auto sync ----
\* Switch onValueChange={setEnablePollingSync}: the render is committed and
\* the polling effect is scheduled (an earlier one has been flushed)
SetEnablePollingSync(v) ==
    /\ mpc = "mounted"
    /\ hist.toggles < MaxToggles
    /\ ~effectPending
    /\ v # enablePollingSync
    /\ enablePollingSync' = v
    /\ effectPending' = TRUE
    /\ hist' = [hist EXCEPT !.toggles = @ + 1]
    /\ UNCHANGED <<persistent, starts, mpc, currentDbVersion, ui, intervalId,
                   timers, tasks, syncs>>

\* PollingEffect whose cleanup does not call clearInterval
PollingEffectNoClear ==
    /\ mpc = "mounted"
    /\ effectPending
    /\ effectPending' = FALSE
    /\ LET new == MaxOf(timers \cup {intervalId}) + 1
       IN IF enablePollingSync
          THEN /\ timers' = timers \cup {new}
               /\ intervalId' = new
          ELSE /\ timers' = timers
               /\ intervalId' = 0
    /\ UNCHANGED <<persistent, starts, mpc, currentDbVersion, ui,
                   enablePollingSync, tasks, syncs, hist>>

\* PollingEffect that registers an interval whatever the flag is
PollingEffectIgnoresFlag ==
    /\ mpc = "mounted"
    /\ effectPending
    /\ effectPending' = FALSE
    /\ LET cleared == timers \ {intervalId}
           new == MaxOf(timers \cup {intervalId}) + 1
       IN /\ timers' = cleared \cup {new}
          /\ intervalId' = new
    /\ UNCHANGED <<persistent, starts, mpc, currentDbVersion, ui,
                   enablePollingSync, tasks, syncs, hist>>

\* useEffect(..., [enablePollingSync]): the previous cleanup clears its
\* interval, then the effect registers a new one if the flag is set
PollingEffect ==
    /\ mpc = "mounted"
    /\ effectPending
    /\ effectPending' = FALSE
    /\ LET cleared == timers \ {intervalId}
           new == MaxOf(timers \cup {intervalId}) + 1
       IN IF enablePollingSync
          THEN /\ timers' = cleared \cup {new}
               /\ intervalId' = new
          ELSE /\ timers' = cleared
               /\ intervalId' = 0
    /\ UNCHANGED <<persistent, starts, mpc, currentDbVersion, ui,
                   enablePollingSync, tasks, syncs, hist>>

\* ---- the application is closed and started again ----
Restart ==
    /\ starts < MaxStarts
    /\ hist.cmds < MaxCmds
    /\ starts' = starts + 1
    /\ mpc' = "sync"
    /\ currentDbVersion' = 0
    /\ text' = ""
    /\ todoItems' = <<>>
    /\ doneItems' = <<>>
    /\ enablePollingSync' = FALSE
    /\ effectPending' = FALSE
    /\ intervalId' = 0
    /\ timers' = {}
    /\ tasks' = <<>>
    /\ syncs' = {}
    /\ hist' = [NoHist EXCEPT !.v0 = user_version, !.cmds = hist.cmds + 1,
                               !.creates = hist.creates]
    /\ UNCHANGED persistent

Next ==
    \/ MigrateSync
    \/ MigrateRead
    \/ MigrateCreate
    \/ MigrateSetVersion
    \/ MigrateFail
    \/ Mount
    \/ \E t \in Texts : SubmitEditing(t)
    \/ \E i \in 1..MaxId : PressTodo(i)
    \/ \E i \in 1..MaxId : PressDone(i)
    \/ \E n \in 1..MaxTasks : WriteDone(n)
    \/ \E n \in 1..MaxTasks : WriteFail(n)
    \/ \E n \in 1..MaxTasks : ReadTodo(n)
    \/ \E n \in 1..MaxTasks : ReadDone(n)
    \/ SyncNow
    \/ \E t \in timers : Tick(t)
    \/ \E s \in syncs : SyncSucceed(s)
    \/ \E s \in syncs : SyncFail(s)
    \/ \E v \in BOOLEAN : SetEnablePollingSync(v)
    \/ PollingEffect
    \/ Restart

Spec == Init /\ [][Next]_vars

\* the store answers: a statement that can take effect eventually does, and
\* each SELECT of a refetch eventually returns. Nothing is assumed about
\* syncLibSQL calls, which may never resolve.
StoreAnswers ==
    \A n \in 1..MaxTasks :
        /\ WF_vars(WriteDone(n))
        /\ WF_vars(ReadTodo(n))
        /\ WF_vars(ReadDone(n))

SpecFair == Spec /\ StoreAnswers

\* ---- properties ----
MigrateSyncInFlight == \E s \in syncs : s.origin = "migrate"
VersionRead == mpc \in {"create", "setver", "done", "failed", "mounted"}

\* C1: in migrateDbIfNeeded the sync call is made exactly once at the start
\* and has finished before the persisted version is read and before any
\* migration statement or version write executes.
C1_SyncFinishedBeforeMigrating ==
    /\ mpc # "sync" => hist.msync = 1
    /\ VersionRead => ~MigrateSyncInFlight

\* C2: when a migration statement fails the call is aborted with the error
\* (Main is never rendered) and the persisted version still has the value
\* it had when the call began.
C2_FailedMigrationKeepsVersion ==
    mpc = "failed" => /\ user_version = hist.v0
                      /\ tasks = <<>>

\* a migration has failed at the version write, after CREATE TABLE succeeded
C2_Witness == mpc = "failed" /\ tableExists /\ currentDbVersion = 1

\* C3: when the persisted version is already >= DATABASE_VERSION, the steps
\* of migrateDbIfNeeded execute no schema statement, do not write the version
\* and leave the rows unchanged, and the call has started exactly one sync.
C3_CurrentVersionIsNoOp ==
    [][(/\ hist.v0 >= DATABASE_VERSION
        /\ mpc \in {"sync", "read"}
        /\ mpc' # mpc
        /\ starts' = starts)
        => /\ UNCHANGED <<user_version, tableExists, items>>
           /\ mpc' \in {"read", "done"}
           /\ hist'.stmts = 0
           /\ hist'.msync = 1
           /\ mpc' = "read" => \E s \in syncs' \ syncs : s.origin = "migrate"]_vars

\* a second start on a migrated store that holds a row has returned early
C3_Witness ==
    /\ starts = 2
    /\ hist.v0 >= DATABASE_VERSION
    /\ mpc = "done"
    /\ items # {}

\* C4: the two reads of one refetch observe a single store state: the
\* pending rows set by the first read and the completed rows set by the
\* second are the two partitions of the rows as they were at one of the reads.
C4_RefetchReadsOneState ==
    [][\A n \in 1..Len(tasks) :
         ReadDone(n) =>
            \/ SelectByDone(items, FALSE) = SelectByDone(tasks[n].snap, FALSE)
            \/ SelectByDone(items, TRUE) = SelectByDone(tasks[n].snap, TRUE)]_vars

TickSyncs == {s \in syncs : s.origin = "tick"}

C6_FailedSyncChangesNothing ==
    [][hist'.fails > hist.fails =>
         UNCHANGED <<persistent, mpc, ui, polling, tasks>>]_vars

\* a tick's sync call failed and, with auto-sync still on and rows stored,
\* a later tick has fired
C6_Witness ==
    /\ hist.tickFail > 0
    /\ enablePollingSync
    /\ items # {}
    /\ \E s \in TickSyncs : s.id > hist.tickFail

\* C7: a sync trigger that requests a refresh makes one sync call and one
\* refresh request, and the reads of that refresh run only after the sync
\* call has completed.
C7_RefetchReadsAfterSync ==
    /\ hist.nsync = hist.msync + hist.trig
    /\ \A n \in 1..Len(tasks) :
          (tasks[n].sync # 0 /\ tasks[n].pc = "read2")
             => \A s \in syncs : s.id # tasks[n].sync

\* C8 as stated: the sync calls of two periodic ticks are never in flight
\* at the same time.
C8_TicksNeverOverlap == Cardinality(TickSyncs) <= 1

\* C8: each periodic tick makes one sync call, so no more tick sync calls are
\* in flight than ticks have fired; the calls of different ticks may overlap.
C8_OneSyncCallPerTick == Cardinality(TickSyncs) <= hist.ticks

\* the sync calls of two ticks are in flight at the same time
C8_Witness == Cardinality(TickSyncs) = 2 /\ hist.ticks = 2

\* C9: refetchItems is invoked once at mount, once when the store write of
\* an add, markDone or delete has completed and once by every sync trigger,
\* and by nothing else.
C9_RefetchAfterEveryCommand ==
    /\ hist.refresh = hist.mounts + hist.writes + hist.trig
    /\ hist.mounts = (IF mpc = "mounted" THEN 1 ELSE 0)
    /\ Cardinality({n \in 1..Len(tasks) : tasks[n].pc # "write"})
          <= hist.refresh

\* a write has completed and a sync has been triggered after the mount
C9_Witness ==
    /\ hist.mounts = 1
    /\ hist.writes >= 1
    /\ hist.trig >= 1
    /\ items # {}

UserKinds == {"add", "done", "del", "manual"}

WriteTookEffect(t) ==
    /\ t.kind \in {"add", "done", "del"}
    /\ t.pc # "write"
    /\ t.kind = "add" => t.txt # ""

\* C10: user commands run in the order submitted, each with its refresh:
\* the write of a command has not taken effect while a command submitted
\* before it is still at its write or in its refresh.
C10_CommandsRunInOrder ==
    \A m, n \in 1..Len(tasks) :
       (m < n /\ tasks[m].kind \in UserKinds) => ~WriteTookEffect(tasks[n])

\* the statement of handler n takes effect in this step
Landed(n, k) ==
    /\ n \in 1..Len(tasks)
    /\ Len(tasks') = Len(tasks)
    /\ tasks[n].kind = k
    /\ tasks[n].pc = "write"
    /\ tasks'[n].pc = "read1"

\* onSubmitEditing is invoked with the empty text in this step
EmptySubmitted ==
    /\ Len(tasks') = Len(tasks) + 1
    /\ tasks'[Len(tasks')].kind = "add"
    /\ tasks'[Len(tasks')].txt = ""

\* C11: add(t) with t non-empty inserts exactly one new row with value t and
\* done = false: the pending rows are one more and the completed rows are
\* unchanged; add("") inserts nothing, changes neither partition and the
\* handler goes on to its refresh.
C11_AddInsertsOnePendingRow ==
    [][/\ \A n \in 1..Len(tasks) :
            Landed(n, "add") =>
               /\ \E r \in items' \ items :
                     /\ items' = items \cup {r}
                     /\ r.id \notin Ids(items)
                     /\ r.value = tasks[n].txt
                     /\ r.done = FALSE
               /\ Len(SelectByDone(items', FALSE))
                     = Len(SelectByDone(items, FALSE)) + 1
               /\ SelectByDone(items', TRUE) = SelectByDone(items, TRUE)
       /\ EmptySubmitted =>
            /\ items' = items
            /\ tasks'[Len(tasks')].pc = "read1"]_vars

\* a non-empty text has been added to a store that already held a row (no
\* sync has completed, so both rows were added by this client)
C11_Witness ==
    /\ Cardinality(items) = 2
    /\ starts = 1
    /\ Cardinality(syncs) = hist.nsync
    /\ \E n \in 1..Len(tasks) :
          tasks[n].kind = "add" /\ tasks[n].txt # "" /\ tasks[n].pc = "read1"

Row(S, i) == {r \in S : r.id = i}

\* C12: markDone(i) on a stored pending row i turns exactly that row into a
\* completed row (a refresh that follows lists it under completed and not
\* under pending, once); on a row already completed or an id not stored it
\* changes nothing; in every case the handler goes on to its refresh.
C12_MarkDoneMovesOneRow ==
    [][\A n \in 1..Len(tasks) :
         Landed(n, "done") =>
            LET i == tasks[n].id
                pending == {r \in Row(items, i) : ~r.done}
            IN /\ {r \in items' : r.id # i} = {r \in items : r.id # i}
               /\ Cardinality(items') = Cardinality(items)
               /\ pending # {} =>
                     /\ Row(items', i) = {[r EXCEPT !.done = TRUE] : r \in pending}
                     /\ i \notin Ids(Range(SelectByDone(items', FALSE)))
                     /\ Cardinality({k \in 1..Len(SelectByDone(items', TRUE)) :
                            SelectByDone(items', TRUE)[k].id = i}) = 1
               /\ pending = {} => items' = items]_vars

\* the UPDATE of a markDone handler has landed on pending row 2 while the
\* older row 1 is stored and stays pending
C12_Witness ==
    /\ Cardinality(items) = 2
    /\ \E n \in 1..Len(tasks) :
          /\ tasks[n].kind = "done"
          /\ tasks[n].pc = "read1"
          /\ tasks[n].id = 2
          /\ \E r \in items : r.id = 2 /\ r.done
          /\ \E r \in items : r.id = 1 /\ ~r.done
\* C13: a delete statement that takes effect removes the row with its id,
\* whether that row is pending or completed, and leaves every other row as
\* it was; when no row has the id, the table is unchanged and the handler
\* goes on to its refresh as after any successful statement.
C13_DeleteRemovesOnlyThatRow ==
    [][\A n \in 1..Len(tasks) :
         Landed(n, "del") =>
            LET i == tasks[n].id
            IN /\ i \notin Ids(items')
               /\ {r \in items' : r.id # i} = {r \in items : r.id # i}
               /\ items' \subseteq items
               /\ SelectByDone(items', FALSE) =
                     SelectSeq(SelectByDone(items, FALSE), LAMBDA r : r.id # i)
               /\ SelectByDone(items', TRUE) =
                     SelectSeq(SelectByDone(items, TRUE), LAMBDA r : r.id # i)
               /\ i \notin Ids(items) => items' = items]_vars

\* a delete handler is past its statement, the row it named is gone and
\* another row is still stored
C13_Witness ==
    /\ Cardinality(items) = 1
    /\ \E n \in 1..Len(tasks) :
          /\ tasks[n].kind = "del"
          /\ tasks[n].pc = "read1"
          /\ tasks[n].id \notin Ids(items)
          /\ tasks[n].id = 1
\* C14: the id an INSERT is given is larger than every id an earlier INSERT was
\* given, so that no id is handed out twice.
C14_IdsNeverReused ==
    [][\A n \in 1..Len(tasks) :
         (Landed(n, "add") /\ items' # items) =>
            /\ NewId(items) \notin Ids(items)
            /\ NewId(items) > hist.maxId]_vars
\* the statement of some handler (add, markDone or delete) takes effect
CommandLanded ==
    \E n \in 1..Len(tasks) : \E k \in {"add", "done", "del"} : Landed(n, k)

\* C15: a statement of the core never changes the value of a stored row and
\* never takes its done flag from true to false: a row that is stored before
\* and after the statement is either unchanged or went from pending to
\* completed.
C15_OnlyChangeIsPendingToDone ==
    [][CommandLanded =>
         \A r \in items : \A q \in items' :
            r.id = q.id =>
               /\ q.value = r.value
               /\ r.done => q.done
               /\ q = r \/ (q = [r EXCEPT !.done = TRUE] /\ ~r.done)]_vars

\* a markDone statement has landed: its row is stored as completed next to
\* another row, and the lists on display no longer show the id
C15_Witness ==
    /\ Cardinality(items) = 2
    /\ \E n \in 1..Len(tasks) :
          /\ tasks[n].kind = "done"
          /\ tasks[n].pc = "read1"
          /\ \E r \in items : r.id = tasks[n].id /\ r.done
          /\ tasks[n].id \notin Ids(Range(todoItems)) \cup Ids(Range(doneItems))
\* the handler of command c is in flight
InFlight(c) == \E n \in 1..Len(tasks) : tasks[n].cmd = c

\* the handler of command c is one of add, markDone, delete
IsCommand(c) ==
    \E n \in 1..Len(tasks) :
        tasks[n].cmd = c /\ tasks[n].kind \in {"add", "done", "del"}

\* C16: while a sync call is in flight, whether or not it ever returns, the
\* handler of an add, markDone or delete does not wait for it: its statement
\* gets its answer and the refresh that follows runs to its end.
C16_HungSyncDoesNotBlockCommands ==
    \A c \in 1..MaxCmds : (syncs # {} /\ IsCommand(c)) ~> ~InFlight(c)

\* the manual sync of command 1 has not returned; the add issued after it as
\* command 2 has stored its row and is half way through its refresh
C16_Witness ==
    /\ hist.trig = 1
    /\ \E s \in syncs : s.origin = "manual"
    /\ \E n \in 1..Len(tasks) :
          /\ tasks[n].cmd = 2
          /\ tasks[n].kind = "add"
          /\ tasks[n].pc = "read2"
          /\ \E r \in items : r.value = tasks[n].txt
\* C17 as stated: over all starts the one migration step (version 0 to 1,
\* CREATE TABLE) is executed exactly once before the version is advanced and
\* never more than once, also when a statement of an earlier start failed.
C17_StepAppliedExactlyOnce ==
    /\ hist.creates <= 1
    /\ user_version >= 1 => hist.creates = 1

\* C17, amended: the step is executed at most once per start and only while
\* the persisted version is still 0, so it is executed again on a later
\* start exactly when the version write had not succeeded; the table is
\* created by its first execution only; the persisted version changes only
\* by the version write that follows a successful step of the same start,
\* and then to DATABASE_VERSION.
C17_StepRerunOnlyUntilVersionWritten ==
    [][/\ hist'.creates > hist.creates =>
             /\ user_version = 0
             /\ currentDbVersion = 0
             /\ hist'.creates = hist.creates + 1
             /\ hist'.creates <= starts
             /\ tableExists' /\ (tableExists <=> hist.creates > 0)
       /\ tableExists' # tableExists => hist.creates = 0
       /\ user_version' # user_version =>
             /\ user_version = 0
             /\ user_version' = DATABASE_VERSION
             /\ currentDbVersion = DATABASE_VERSION
             /\ tableExists
             /\ hist.stmts = 1
             /\ mpc = "setver" /\ mpc' = "done"]_vars

\* the first start ended after CREATE TABLE had succeeded and without the
\* version written; the second start executed the step again, wrote the
\* version and rendered Main
C17_Witness ==
    /\ starts = 2
    /\ hist.creates = 2
    /\ user_version = DATABASE_VERSION
    /\ mpc = "mounted"
\* C18: a DELETE issued by pressing an entry of the Completed list removes,
\* if anything, a row that is completed at the moment the statement takes
\* effect.
C18_DeleteRemovesOnlyCompleted ==
    [][\A n \in 1..Len(tasks) :
         Landed(n, "del") => \A r \in items \ items' : r.done]_vars
\* nothing is in flight and auto-sync is off
Quiescent ==
    /\ mpc = "mounted"
    /\ ~enablePollingSync
    /\ ~effectPending
    /\ timers = {}
    /\ tasks = <<>>
    /\ syncs = {}

\* C19: whenever nothing is in flight and auto-sync is off, the Pending list
\* on display is the pending rows of the table and the Completed list on
\* display is its completed rows.
C19_DisplayMatchesStoreWhenQuiescent ==
    Quiescent =>
       /\ todoItems = SelectByDone(items, FALSE)
       /\ doneItems = SelectByDone(items, TRUE)
\* C20: at every moment at most one interval is registered, and it is the one
\* whose id the polling effect holds for its cleanup; once the polling effect
\* has run for the current value of the flag, an interval is registered
\* exactly when auto-sync is enabled.
C20_OneTimerIffEnabled ==
    /\ Cardinality(timers) <= 1
    /\ timers \subseteq {intervalId}
    /\ (mpc = "mounted" /\ ~effectPending) =>
          (timers # {} <=> enablePollingSync)
    /\ mpc # "mounted" => timers = {}

\* auto-sync has been switched on, off and on again and the polling effect
\* has run each time: the third interval is the only one registered
C20_Witness ==
    /\ hist.toggles = 3
    /\ enablePollingSync
    /\ ~effectPending
    /\ timers = {intervalId}
    /\ intervalId # 0
====
